---- MODULE Spec2Model ----
(***************************************************************************)
(* A model of db-query: the query safety classifier (safety.ts), the       *)
(* drivers' row limiting (drivers/*.ts) and the connection registry with   *)
(* its request handlers and shutdown (index.ts).                           *)
(*                                                                         *)
(* SQL text is a sequence of units: single characters (the quotes, the     *)
(* characters of the comment delimiters, newline, the statement separator, *)
(* a backslash) and whole words (an ordinary word "a" and mutation         *)
(* keywords in two letter cases).  A word is made of word characters only, *)
(* so a regular expression's \b falls exactly between units, and no        *)
(* pattern of safety.ts can match a part of a word.                        *)
(***************************************************************************)
EXTENDS Integers, Sequences, FiniteSets, TLC

VARIABLES
    sql,            \* SpecSafety: the query text handed to validateQuery
    allowMutations, \* SpecSafety: validateQuery's second argument
    safety,         \* SpecSafety: the SafetyResult returned, or NotValidated
    qreq,           \* SpecRows: a db_query request, its connection and config
    qres,           \* SpecRows: the QueryResult and what formatResults shows
    drivers,        \* Spec: the registry, a Map in insertion order
    insts,          \* Spec: the driver instances created so far
    proc,           \* Spec: each request and its position in its handler
    stop,           \* Spec: the position of the service's stop handler
    newSinceStop,   \* Spec: a request arrived after stop completed
    exited,         \* Spec: process.exit was called
    input,          \* the arguments of a call of one function
    output,         \* what that call returned, or NotCalled
    drv             \* SpecDriver: one driver instance and what was done to it

safetyVars == <<sql, allowMutations, safety>>

rowsVars == <<qreq, qres>>

registryVars == <<drivers, insts, proc, stop, newSinceStop, exited>>

callVars == <<input, output>>

driverVars == <<drv>>

vars == <<safetyVars, rowsVars, registryVars, callVars, driverVars>>

----------------------------------------------------------------------------
(* Lexical units *)

SQ == "'"
DQ == "\""
BS == "\\"
SL == "/"
ST == "*"
MI == "-"
NL == "\n"
SC == ";"

\* the longest query text the model draws
MaxLen == 4

Chars == {SQ, DQ, BS, SL, ST, MI, NL, SC, "a", "DROP", "insert"}

\* the longest text drawn to exercise stripLiteralsAndComments
MaxStripLen == 6

StripChars == {SQ, DQ, SL, ST, MI, NL, "DROP"}

\* \s of a JavaScript regular expression, and String.prototype.trim
IsSpace(c) == c \in {" ", "\t", "\n", "\r"}

\* \w: units made of word characters
IsWord(c) == c \notin {SQ, DQ, BS, SL, ST, MI, NL, SC, " ", "\t", "\r"}

\* the i flag of the keyword regular expressions
ToUpper(c) == IF c = "insert" THEN "INSERT" ELSE c

----------------------------------------------------------------------------
(* safety.ts *)

MUTATION_KEYWORDS ==
    <<"INSERT", "UPDATE", "DELETE", "DROP", "ALTER",
      "TRUNCATE", "CREATE", "REPLACE", "MERGE", "GRANT", "REVOKE">>

NoReason == [text |-> "none", keyword |-> "none"]
MultipleStatements == [text |-> "multiple statements not allowed", keyword |-> "none"]
Blocked(keyword) == [text |-> "blocked - mutations are disabled", keyword |-> keyword]

trim(s) ==
    IF \A i \in DOMAIN s : IsSpace(s[i]) THEN <<>>
    ELSE LET first == CHOOSE i \in DOMAIN s :
                          ~IsSpace(s[i]) /\ \A j \in 1..(i-1) : IsSpace(s[j])
             last  == CHOOSE i \in DOMAIN s :
                          ~IsSpace(s[i]) /\ \A j \in (i+1)..Len(s) : IsSpace(s[j])
         IN SubSeq(s, first, last)

includes(s, c) == \E i \in DOMAIN s : s[i] = c

\* trimmed.replace(/;\s*$/, ""): the first ";" that only white space follows
stripTrailingSemicolon(s) ==
    LET at == {i \in DOMAIN s : s[i] = SC /\ \A j \in (i+1)..Len(s) : IsSpace(s[j])}
    IN IF at = {} THEN s
       ELSE SubSeq(s, 1, (CHOOSE i \in at : \A j \in at : i <= j) - 1)

\* (?:[^q\\]|\\.)*q tried at unit k: the index of the closing quote, 0 for no match.
\* A backslash takes the next character with it, but "." refuses a newline.
RECURSIVE closingQuote(_, _, _)
closingQuote(s, k, q) ==
    IF k > Len(s) THEN 0
    ELSE IF s[k] = q THEN k
    ELSE IF s[k] = BS
         THEN IF k + 1 > Len(s) \/ s[k+1] = NL THEN 0
              ELSE closingQuote(s, k + 2, q)
    ELSE closingQuote(s, k + 1, q)

\* .replace(/q(?:[^q\\]|\\.)*q/g, ""), scanning from unit i
RECURSIVE removeQuoted(_, _, _)
removeQuoted(s, i, q) ==
    IF i > Len(s) THEN <<>>
    ELSE IF s[i] = q /\ closingQuote(s, i + 1, q) # 0
         THEN removeQuoted(s, closingQuote(s, i + 1, q) + 1, q)
    ELSE <<s[i]>> \o removeQuoted(s, i + 1, q)

\* s[i], s[i+1] are the two characters a, b
pairAt(s, i, a, b) == i + 1 <= Len(s) /\ s[i] = a /\ s[i+1] = b

\* .replace(/\/\*[\s\S]*?\*\//g, ""), scanning from unit i
RECURSIVE removeBlockComments(_, _)
removeBlockComments(s, i) ==
    IF i > Len(s) THEN <<>>
    ELSE LET ends == {j \in (i+2)..Len(s) : pairAt(s, j, ST, SL)}
         IN IF pairAt(s, i, SL, ST) /\ ends # {}
            THEN removeBlockComments(s, (CHOOSE j \in ends : \A k \in ends : j <= k) + 2)
            ELSE <<s[i]>> \o removeBlockComments(s, i + 1)

\* .replace(/--[^\n]*/g, ""), scanning from unit i
RECURSIVE removeLineComments(_, _)
removeLineComments(s, i) ==
    IF i > Len(s) THEN <<>>
    ELSE LET nls == {j \in (i+2)..Len(s) : s[j] = NL}
         IN IF pairAt(s, i, MI, MI)
            THEN IF nls = {} THEN <<>>
                 ELSE removeLineComments(s, CHOOSE j \in nls : \A k \in nls : j <= k)
            ELSE <<s[i]>> \o removeLineComments(s, i + 1)

stripLiteralsAndComments(s) ==
    removeLineComments(
        removeBlockComments(
            removeQuoted(removeQuoted(s, 1, SQ), 1, DQ), 1), 1)

\* new RegExp(`\\b${keyword}\\b`, "i").test(s)
matchesKeyword(s, keyword) ==
    \E i \in DOMAIN s :
        /\ ToUpper(s[i]) = keyword
        /\ (i = 1 \/ ~IsWord(s[i-1]))
        /\ (i = Len(s) \/ ~IsWord(s[i+1]))

\* the for loop over MUTATION_KEYWORDS: the first keyword of the list that matches
firstKeyword(s) ==
    LET hits == {k \in DOMAIN MUTATION_KEYWORDS : matchesKeyword(s, MUTATION_KEYWORDS[k])}
    IN IF hits = {} THEN 0 ELSE CHOOSE k \in hits : \A j \in hits : k <= j

scanKeywords(trimmed) ==
    LET sanitized == stripLiteralsAndComments(trimmed)
        k == firstKeyword(sanitized)
    IN IF k # 0
       THEN [allowed |-> FALSE, reason |-> Blocked(MUTATION_KEYWORDS[k])]
       ELSE [allowed |-> TRUE, reason |-> NoReason]

hasSecondStatement(trimmed) == includes(stripTrailingSemicolon(trimmed), SC)

\* mutant: the keyword scan made before the multiple-statement check
validateQuery_ScanFirst(query, allow) ==
    IF allow THEN [allowed |-> TRUE, reason |-> NoReason]
    ELSE LET trimmed == trim(query)
         IN IF ~scanKeywords(trimmed).allowed THEN scanKeywords(trimmed)
            ELSE IF hasSecondStatement(trimmed)
                 THEN [allowed |-> FALSE, reason |-> MultipleStatements]
            ELSE [allowed |-> TRUE, reason |-> NoReason]

\* mutant: the allowMutations flag not consulted
validateQuery_FlagIgnored(query, allow) ==
    LET trimmed == trim(query)
    IN IF hasSecondStatement(trimmed)
       THEN [allowed |-> FALSE, reason |-> MultipleStatements]
       ELSE scanKeywords(trimmed)

validateQuery(query, allow) ==
    IF allow THEN [allowed |-> TRUE, reason |-> NoReason]
    ELSE LET trimmed == trim(query)
         IN IF hasSecondStatement(trimmed)
            THEN [allowed |-> FALSE, reason |-> MultipleStatements]
            ELSE scanKeywords(trimmed)

----------------------------------------------------------------------------
(* The state of a validateQuery call that has not been made yet *)

NotValidated == [allowed |-> FALSE, reason |-> [text |-> "not validated", keyword |-> "none"]]

----------------------------------------------------------------------------
(* Row limiting: db_query's limit, resolveConfig's maxRows and the three    *)
(* drivers' query().  A statement is described by what the drivers look at: *)
(* the word its upper-cased text starts with, whether the text contains     *)
(* "LIMIT", and by what the backend does with it as written: the number of  *)
(* rows it yields, or the number of rows it changes.  Rows are counted, not *)
(* listed.                                                                  *)

\* an optional value: undefined, or a value
None == <<>>

Some(x) == <<x>>

Min(a, b) == IF a <= b THEN a ELSE b

Max(a, b) == IF a >= b THEN a ELSE b

\* params.limit ?? 100
DefaultLimit == 100

\* raw.maxRows ?? 1000
DefaultMaxRows == 1000

\* Math.min(..., 10000)
HardCap == 10000

DEFAULTS ==
    [defaultConnection |-> "", maxRows |-> 1000, allowMutations |-> FALSE]

\* raw is None when the plugin has no configuration, else Some(raw.maxRows)
resolveMaxRows(raw) ==
    IF raw = None THEN DEFAULTS.maxRows
    ELSE Min(IF raw[1] = None THEN DefaultMaxRows ELSE raw[1][1], HardCap)

\* const limit = Math.min(params.limit ?? 100, cfg.maxRows)
queryLimit(limitParam, maxRows) ==
    Min(IF limitParam = None THEN DefaultLimit ELSE limitParam[1], maxRows)

\* Array.prototype.slice(0, limit) of an array of n elements
slice(n, limit) == IF limit >= 0 THEN Min(n, limit) ELSE Max(n + limit, 0)

Heads == {"SELECT", "WITH", "PRAGMA", "EXPLAIN", "VALUES", "INSERT"}

\* the statements that give rows back; the others report a change count
ReturnsRows(head) == head # "INSERT"

QueryError == [status |-> "error", rows |-> 0, rowCount |-> 0, totalAvailable |-> None]

NotRun == [status |-> "none", rows |-> 0, rowCount |-> 0, totalAvailable |-> None]

\* what SQLite does with LIMIT n: a negative n is no limit
sqliteLimit(yield, n) == IF n < 0 THEN yield ELSE Min(yield, n)

SqliteQuery(st, limit) ==
    LET wrapped == st.head = "SELECT" /\ ~st.hasLimit
        fetched == IF wrapped THEN sqliteLimit(st.yield, limit + 1) ELSE st.yield
    IN IF st.head \in {"SELECT", "PRAGMA", "EXPLAIN", "WITH"}
       THEN [status |-> "ok", rows |-> slice(fetched, limit),
             rowCount |-> slice(fetched, limit),
             totalAvailable |-> Some(fetched)]
       ELSE [status |-> "ok", rows |-> 0, rowCount |-> 0,
             totalAvailable |-> Some(st.changes)]

\* PostgreSQL rejects a negative LIMIT; result.rowCount of a row-returning
\* statement is the number of rows it returned
PostgresQuery(st, limit) ==
    LET wrapped == st.head = "SELECT" /\ ~st.hasLimit
        fetched == IF wrapped THEN Min(st.yield, limit) ELSE st.yield
    IN IF wrapped /\ limit < 0 THEN QueryError
       ELSE IF ReturnsRows(st.head)
       THEN [status |-> "ok", rows |-> slice(fetched, limit),
             rowCount |-> fetched, totalAvailable |-> Some(fetched)]
       ELSE [status |-> "ok", rows |-> 0, rowCount |-> 0,
             totalAvailable |-> Some(st.changes)]

\* MySQL rejects a negative LIMIT; no totalAvailable is returned
MysqlQuery(st, limit) ==
    LET wrapped == st.head \in {"SELECT", "WITH"}
        fetched == IF wrapped THEN Min(st.yield, limit) ELSE st.yield
    IN IF wrapped /\ limit < 0 THEN QueryError
       ELSE IF ReturnsRows(st.head)
       THEN [status |-> "ok", rows |-> slice(fetched, limit),
             rowCount |-> fetched, totalAvailable |-> None]
       ELSE [status |-> "ok", rows |-> 0, rowCount |-> st.changes,
             totalAvailable |-> None]

DriverQuery(driver, st, limit) ==
    CASE driver = "sqlite" -> SqliteQuery(st, limit)
      [] driver = "postgres" -> PostgresQuery(st, limit)
      [] OTHER -> MysqlQuery(st, limit)

\* the last line of formatResults' table output
caption(rows, totalAvailable) ==
    IF rows = 0 THEN "No results."
    ELSE IF totalAvailable # None /\ totalAvailable[1] > rows
         THEN "showing K of N rows"
    ELSE "(K rows)"

\* db_query: limit, driver.query, formatResults
dbQueryExecute(req) ==
    LET limit == queryLimit(req.limit, resolveMaxRows(req.rawConfig))
        result == DriverQuery(req.driver, req.statement, limit)
    IN [status |-> result.status, rows |-> result.rows,
        rowCount |-> result.rowCount, totalAvailable |-> result.totalAvailable,
        text |-> IF result.status = "error" THEN "Error"
                 ELSE caption(result.rows, result.totalAvailable)]

\* the result sizes and the limits drawn: around each of 100, 1000 and 10000
SampleYields == {0, 1, 3, 101, 1001, 10001, 10002}

SampleLimits == {None, Some(-1), Some(0), Some(1), Some(2), Some(5000), Some(20000)}

SampleConfigs == {None, Some(None), Some(Some(2)), Some(Some(500)), Some(Some(20000))}

----------------------------------------------------------------------------
(* The connection registry of index.ts: getDriver, the query surfaces       *)
(* (the db_query and db_schema tools, the /db command, the CLI's query) and *)
(* the service's stop handler.  Every await of the code is a point where    *)
(* another request or the stop handler may run, so each stretch of code     *)
(* between two awaits is one action.                                        *)

\* the requests made in one behaviour; any number of them may be in flight
\* at once
MaxRequests == 2

\* the requests, numbered in their order of arrival
Requests == 1..MaxRequests

\* cfg: a read-only SQLite default connection and a writable Postgres one
Cfg ==
    [connections |->
        [local |-> [driver |-> "sqlite", readOnly |-> None],
         dev |-> [driver |-> "postgres", readOnly |-> Some(FALSE)]],
     defaultConnection |-> "local",
     maxRows |-> 1000,
     allowMutations |-> FALSE]

\* mutant: the global flag wins over the connection's override
isReadOnly_GlobalFirst(connectionReadOnly, globalAllowMutations) ==
    IF globalAllowMutations THEN FALSE
    ELSE IF connectionReadOnly # None THEN connectionReadOnly[1]
    ELSE TRUE

isReadOnly(connectionReadOnly, globalAllowMutations) ==
    IF connectionReadOnly # None THEN connectionReadOnly[1]
    ELSE ~globalAllowMutations

\* connCfg?.readOnly
connReadOnly(name) ==
    IF name \in DOMAIN Cfg.connections THEN Cfg.connections[name].readOnly
    ELSE None

\* Object.keys(cfg.connections), in insertion order
CfgKeys == <<"local", "dev">>

Resolved(name) == [ok |-> TRUE, name |-> name, error |-> "none", listed |-> <<>>]

Unresolved(error, keys) ==
    [ok |-> FALSE, name |-> "none", error |-> error, listed |-> keys]

\* resolveConfig(raw), the connection names and the default: raw is None, or
\* holds connections (None, or its keys in order) and defaultConnection
\* (None, or a string); maxRows is resolveMaxRows above
resolveConfig(raw) ==
    IF raw = None
    THEN [connections |-> <<>>, defaultConnection |-> ""]
    ELSE LET keys == IF raw[1].connections = None THEN <<>>
                     ELSE raw[1].connections[1]
         IN [connections |-> keys,
             defaultConnection |->
                 IF raw[1].defaultConnection # None
                 THEN raw[1].defaultConnection[1]
                 ELSE IF keys # <<>> THEN keys[1]
                 ELSE ""]

\* resolveConnectionName under a configuration with these keys and default
resolveConnectionNameIn(keys, defaultConnection, name) ==
    IF name # None /\ name[1] # "" THEN Resolved(name[1])
    ELSE IF defaultConnection # "" THEN Resolved(defaultConnection)
    ELSE IF Len(keys) = 1 THEN Resolved(keys[1])
    ELSE IF Len(keys) = 0
    THEN Unresolved("No database connections configured.", keys)
    ELSE Unresolved("Multiple connections available", keys)

resolveConnectionName(name) ==
    resolveConnectionNameIn(CfgKeys, Cfg.defaultConnection, name)

\* drivers.get(name): the instance, or 0 for undefined
driversGet(reg, name) ==
    IF \E k \in DOMAIN reg : reg[k].name = name
    THEN reg[CHOOSE k \in DOMAIN reg : reg[k].name = name].inst
    ELSE 0

\* drivers.set(name, inst): an existing key keeps its place
driversSet(reg, name, inst) ==
    IF \E k \in DOMAIN reg : reg[k].name = name
    THEN [k \in DOMAIN reg |->
            IF reg[k].name = name THEN [name |-> name, inst |-> inst] ELSE reg[k]]
    ELSE Append(reg, [name |-> name, inst |-> inst])

NoReply == [kind |-> "none", reason |-> NoReason]

Ok == [kind |-> "ok", reason |-> NoReason]

Denial(reason) == [kind |-> "denied", reason |-> reason]

Error(text) == [kind |-> "error", reason |-> [text |-> text, keyword |-> "none"]]

\* retry records that an earlier connection attempt for the request's
\* connection name had failed when the request arrived
Idle ==
    [pc |-> "idle", surface |-> "none", conn |-> "none", query |-> <<>>,
     inst |-> 0, reply |-> NoReply, queried |-> FALSE, retry |-> FALSE]

Surfaces == {"db_query", "db_schema", "/db", "cli"}

\* params.connection / opts.connection: omitted, configured, not configured
SampleConnections == {None, Some("dev"), Some("nope")}

\* a read and a mutation
SampleQueries == {<<"a">>, <<"DROP", " ", "a">>}

\* mutant: a surface that runs the statement without the safety check
classify_Unchecked(surface, query, readOnly) ==
    [allowed |-> TRUE, reason |-> NoReason]

\* the safety check of a query surface; db_schema takes no SQL
classify(surface, query, readOnly) ==
    IF surface = "db_schema" THEN [allowed |-> TRUE, reason |-> NoReason]
    ELSE validateQuery(query, ~readOnly)

----------------------------------------------------------------------------
(* format.ts.  A result has one column; a text is a sequence of characters, *)
(* a cell value is NULL or a text.                                          *)

MAX_CELL_WIDTH == 200

CR == "\r"

Chr(s) == [i \in 1..Len(s) |-> s[i]]

NullText == <<"N", "U", "L", "L">>

Ellipsis == <<".", ".", ".">>

\* mutant: the ellipsis appended to the first MAX_CELL_WIDTH characters
sanitizeCell_Overlong(value) ==
    IF value.type = "null" THEN NullText
    ELSE IF Len(value.text) > MAX_CELL_WIDTH
         THEN SubSeq(value.text, 1, MAX_CELL_WIDTH) \o Ellipsis
    ELSE value.text

sanitizeCell(value) ==
    IF value.type = "null" THEN NullText
    ELSE IF Len(value.text) > MAX_CELL_WIDTH
         THEN SubSeq(value.text, 1, MAX_CELL_WIDTH - 3) \o Ellipsis
    ELSE value.text

\* val.replace(/"/g, '""')
RECURSIVE doubleQuotes(_)
doubleQuotes(val) ==
    IF ~includes(val, DQ) THEN val
    ELSE (IF Head(val) = DQ THEN <<DQ, DQ>> ELSE <<Head(val)>>)
            \o doubleQuotes(Tail(val))

csvEscape(val) ==
    IF includes(val, ",") \/ includes(val, DQ) \/ includes(val, NL)
    THEN <<DQ>> \o doubleQuotes(val) \o <<DQ>>
    ELSE val

\* String.prototype.padEnd
padEnd(s, width) ==
    s \o [i \in 1..Max(width - Len(s), 0) |-> " "]

\* the column's width after the cells up to the k-th were measured
RECURSIVE columnWidth(_, _, _)
columnWidth(header, cells, k) ==
    IF k = 0 THEN Len(header)
    ELSE Min(Max(columnWidth(header, cells, k - 1), Len(cells[k])),
             MAX_CELL_WIDTH)

formatTable(header, rows, totalAvailable) ==
    LET cells == [i \in DOMAIN rows |-> sanitizeCell(rows[i])]
        width == columnWidth(header, cells, Len(cells))
    IN [kind |-> "table",
        header |-> padEnd(header, width),
        sep |-> width,
        body |-> [i \in DOMAIN cells |-> padEnd(cells[i], width)],
        caption |-> caption(Len(rows), totalAvailable)]

formatCsv(header, rows) ==
    [kind |-> "csv",
     header |-> csvEscape(header),
     body |-> [i \in DOMAIN rows |-> csvEscape(sanitizeCell(rows[i]))]]

\* JSON.stringify(rows.map(row => sanitizeRow(row)), null, 2)
formatJson(header, rows) ==
    [kind |-> "json", header |-> header, body |-> rows]

NoResults == [kind |-> "text", text |-> "No results."]

\* mutant: an empty table drawn for an empty result
formatResults_EmptyTable(header, rows, format, totalAvailable) ==
    CASE format = "json" -> formatJson(header, rows)
      [] format = "csv" -> formatCsv(header, rows)
      [] OTHER -> formatTable(header, rows, totalAvailable)

formatResults(header, rows, format, totalAvailable) ==
    IF Len(rows) = 0 THEN NoResults
    ELSE CASE format = "json" -> formatJson(header, rows)
           [] format = "csv" -> formatCsv(header, rows)
           [] OTHER -> formatTable(header, rows, totalAvailable)

\* the longest of the short cell texts drawn
MaxCellLen == 3

\* how far beyond MAX_CELL_WIDTH the long cell texts drawn reach
MaxOver == 2

CellAlphabet == {",", DQ, NL, CR, "a"}

ShortTexts == UNION {[1..n -> CellAlphabet] : n \in 0..MaxCellLen}

\* n characters: "x" up to the last character that truncation keeps, then "y"
Pattern(n) == [i \in 1..n |-> IF i <= MAX_CELL_WIDTH - 3 THEN "x" ELSE "y"]

LongTexts ==
    UNION {{Pattern(n), <<",">> \o Pattern(n - 1)} :
              n \in (MAX_CELL_WIDTH - 1)..(MAX_CELL_WIDTH + MaxOver)}

Text(s) == [type |-> "text", text |-> s]

CellValues ==
    {[type |-> "null", text |-> <<>>]}
        \cup {Text(s) : s \in ShortTexts \cup LongTexts}

SampleRows ==
    {<<>>} \cup {<<v>> : v \in CellValues}
           \cup {<<v, Text(<<"a", "a">>)>> : v \in CellValues}

SampleHeaders == {<<"c">>, <<"a", ",", DQ>>}

----------------------------------------------------------------------------
(* Initial states, actions and specifications *)

NoRequest ==
    [driver |-> "none", limit |-> None, rawConfig |-> None,
     statement |-> [head |-> "none", hasLimit |-> FALSE, yield |-> 0, changes |-> 0]]

NoOutcome ==
    [status |-> "none", rows |-> 0, rowCount |-> 0, totalAvailable |-> None,
     text |-> "none"]

RowsIdle == qreq = NoRequest /\ qres = NoOutcome

SafetyIdle == sql = <<>> /\ allowMutations = FALSE /\ safety = NotValidated

RegistryIdle ==
    /\ drivers = <<>>
    /\ insts = <<>>
    /\ proc = [p \in Requests |-> Idle]
    /\ stop = [pc |-> "idle", idx |-> 0]
    /\ newSinceStop = FALSE
    /\ exited = FALSE

NoInput == [fn |-> "none"]

NotCalled == [fn |-> "none"]

CallIdle == input = NoInput /\ output = NotCalled

NoDriver == [driver |-> "none"]

DriverIdle == drv = NoDriver

InitSafety ==
    /\ \E n \in 0..MaxLen : sql \in [1..n -> Chars]
    /\ allowMutations \in BOOLEAN
    /\ safety = NotValidated
    /\ RowsIdle
    /\ RegistryIdle
    /\ CallIdle
    /\ DriverIdle

\* Longer texts of quotes, comment delimiters and one keyword, with mutations
\* disabled: what the stripping of literals and comments does to the scan
InitStrip ==
    /\ \E n \in 0..MaxStripLen : sql \in [1..n -> StripChars]
    /\ allowMutations = FALSE
    /\ safety = NotValidated
    /\ RowsIdle
    /\ RegistryIdle
    /\ CallIdle
    /\ DriverIdle

ValidateQuery ==
    /\ safety = NotValidated
    /\ safety' = validateQuery(sql, allowMutations)
    /\ UNCHANGED <<sql, allowMutations, rowsVars, registryVars,
                   callVars, driverVars>>

NextSafety == ValidateQuery

SpecSafety == InitSafety /\ [][NextSafety]_vars

SpecStrip == InitStrip /\ [][NextSafety]_vars

InitRows ==
    /\ SafetyIdle
    /\ RegistryIdle
    /\ CallIdle
    /\ DriverIdle
    /\ qres = NoOutcome
    /\ \E d \in {"sqlite", "postgres", "mysql"}, h \in Heads, l \in BOOLEAN,
          y \in SampleYields, c \in 0..1, lim \in SampleLimits,
          raw \in SampleConfigs :
          /\ ReturnsRows(h) => c = 0
          /\ ~ReturnsRows(h) => y = 0
          /\ qreq = [driver |-> d, limit |-> lim, rawConfig |-> raw,
                     statement |-> [head |-> h, hasLimit |-> l,
                                    yield |-> y, changes |-> c]]

DbQuery ==
    /\ qres = NoOutcome
    /\ qres' = dbQueryExecute(qreq)
    /\ UNCHANGED <<qreq, safetyVars, registryVars, callVars, driverVars>>

NextRows == DbQuery

SpecRows == InitRows /\ [][NextRows]_vars

Init == SafetyIdle /\ RowsIdle /\ RegistryIdle /\ CallIdle /\ DriverIdle

\* A request arrives and runs up to its first await: the connection name and
\* the policy are resolved, the SQL is classified, getDriver looks the name up
Request(p, surface, connection, query) ==
    /\ ~exited
    /\ proc[p].pc = "idle"
    /\ \A q \in 1..(p - 1) : proc[q].pc # "idle"
    /\ surface = "/db" => connection = None
    /\ (surface = "db_schema") = (query = <<>>)
    /\ LET resolved == resolveConnectionName(connection)
           connName == resolved.name
           readOnly == isReadOnly(connReadOnly(connName), Cfg.allowMutations)
           safetyResult == classify(surface, query, readOnly)
           existing == driversGet(drivers, connName)
           base == [Idle EXCEPT
                      !.surface = surface, !.conn = connName, !.query = query,
                      !.retry = \E i \in DOMAIN insts :
                                    insts[i].conn = connName /\ insts[i].failed]
       IN proc' = [proc EXCEPT ![p] =
            IF ~resolved.ok
            THEN [base EXCEPT !.pc = "done",
                              !.reply = Error("no connection to use")]
            ELSE IF ~safetyResult.allowed
            THEN [base EXCEPT !.pc = "done",
                              !.reply = Denial(safetyResult.reason)]
            ELSE IF existing # 0
            THEN [base EXCEPT !.pc = "query", !.inst = existing]
            ELSE IF connName \notin DOMAIN Cfg.connections
            THEN [base EXCEPT !.pc = "done",
                              !.reply = Error("connection not found")]
            ELSE [base EXCEPT !.pc = "create"]]
    /\ exited' = (surface = "cli" /\ proc'[p].pc = "done")
    /\ newSinceStop' = (newSinceStop \/ stop.pc = "stopped")
    /\ UNCHANGED <<drivers, insts, stop, safetyVars, rowsVars,
                   callVars, driverVars>>

\* await createDriver(connCfg)
CreateDriver(p) ==
    /\ ~exited
    /\ proc[p].pc = "create"
    /\ insts' = Append(insts,
            [conn |-> proc[p].conn,
             driver |-> Cfg.connections[proc[p].conn].driver,
             handle |-> "null", connects |-> 0, closes |-> 0,
             failed |-> FALSE])
    /\ proc' = [proc EXCEPT ![p].pc = "connect", ![p].inst = Len(insts) + 1]
    /\ UNCHANGED <<drivers, stop, newSinceStop, exited,
                   safetyVars, rowsVars,
                   callVars, driverVars>>

\* await driver.connect() resolves: the pool or database handle is set
Connect(p) ==
    /\ ~exited
    /\ proc[p].pc = "connect"
    /\ insts' = [insts EXCEPT ![proc[p].inst].handle = "open",
                              ![proc[p].inst].connects = @ + 1]
    /\ proc' = [proc EXCEPT ![p].pc = "set"]
    /\ UNCHANGED <<drivers, stop, newSinceStop, exited,
                   safetyVars, rowsVars,
                   callVars, driverVars>>

\* mutant: the entry stored although connect() failed
ConnectFail_Kept(p) ==
    /\ ~exited
    /\ proc[p].pc = "connect"
    /\ insts' = [insts EXCEPT ![proc[p].inst].handle = "null",
                              ![proc[p].inst].connects = @ + 1,
                              ![proc[p].inst].failed = TRUE]
    /\ drivers' = driversSet(drivers, proc[p].conn, proc[p].inst)
    /\ proc' = [proc EXCEPT ![p].pc = "done",
                            ![p].reply = Error("connect failed")]
    /\ exited' = (proc[p].surface = "cli")
    /\ UNCHANGED <<stop, newSinceStop, safetyVars, rowsVars,
                   callVars, driverVars>>

\* mutant: a failed connect ends the process on every surface
ConnectFail_Exits(p) ==
    /\ ~exited
    /\ proc[p].pc = "connect"
    /\ insts' = [insts EXCEPT ![proc[p].inst].handle = "null",
                              ![proc[p].inst].connects = @ + 1,
                              ![proc[p].inst].failed = TRUE]
    /\ proc' = [proc EXCEPT ![p].pc = "done",
                            ![p].reply = Error("connect failed")]
    /\ exited' = TRUE
    /\ UNCHANGED <<drivers, stop, newSinceStop, safetyVars, rowsVars,
                   callVars, driverVars>>

\* await driver.connect() rejects: the handle is null again, getDriver
\* throws before drivers.set, the surface reports the error
ConnectFail(p) ==
    /\ ~exited
    /\ proc[p].pc = "connect"
    /\ insts' = [insts EXCEPT ![proc[p].inst].handle = "null",
                              ![proc[p].inst].connects = @ + 1,
                              ![proc[p].inst].failed = TRUE]
    /\ proc' = [proc EXCEPT ![p].pc = "done",
                            ![p].reply = Error("connect failed")]
    /\ exited' = (proc[p].surface = "cli")
    /\ UNCHANGED <<drivers, stop, newSinceStop, safetyVars, rowsVars,
                   callVars, driverVars>>

\* drivers.set(connectionName, driver); return driver
SetDriver(p) ==
    /\ ~exited
    /\ proc[p].pc = "set"
    /\ drivers' = driversSet(drivers, proc[p].conn, proc[p].inst)
    /\ proc' = [proc EXCEPT ![p].pc = "query"]
    /\ UNCHANGED <<insts, stop, newSinceStop, exited,
                   safetyVars, rowsVars,
                   callVars, driverVars>>

\* await driver.query(...) or, for db_schema, driver.listTables(): a driver
\* whose handle is null throws, a connected one answers or the backend fails
Query(p, backendOk) ==
    /\ ~exited
    /\ proc[p].pc = "query"
    /\ LET connected == insts[proc[p].inst].handle = "open"
       IN /\ ~connected => backendOk
          /\ proc' = [proc EXCEPT
                ![p].pc = "done",
                ![p].queried = (proc[p].surface # "db_schema"),
                ![p].reply = IF ~connected THEN Error("not connected")
                             ELSE IF backendOk THEN Ok
                             ELSE Error("query failed")]
          /\ exited' = (proc[p].surface = "cli" /\ ~(connected /\ backendOk))
    /\ UNCHANGED <<drivers, insts, stop, newSinceStop,
                   safetyVars, rowsVars,
                   callVars, driverVars>>

\* the service's stop handler is called
StopBegin ==
    /\ ~exited
    /\ stop.pc = "idle"
    /\ stop' = [pc |-> "loop", idx |-> 1]
    /\ UNCHANGED <<drivers, insts, proc, newSinceStop, exited,
                   safetyVars, rowsVars,
                   callVars, driverVars>>

\* one turn of for (const [name, driver] of drivers): the Map's iterator sees
\* the entries as they are now; await driver.close().catch(() => {})
StopClose(closeOk) ==
    /\ ~exited
    /\ stop.pc = "loop"
    /\ stop.idx <= Len(drivers)
    /\ LET i == drivers[stop.idx].inst
       IN /\ insts[i].handle = "null" => closeOk
          /\ insts' = [insts EXCEPT
                ![i].closes = @ + 1,
                ![i].handle = IF closeOk THEN "null" ELSE @]
    /\ stop' = [stop EXCEPT !.idx = @ + 1]
    /\ UNCHANGED <<drivers, proc, newSinceStop, exited,
                   safetyVars, rowsVars,
                   callVars, driverVars>>

\* the iterator is exhausted: drivers.clear()
StopClear ==
    /\ ~exited
    /\ stop.pc = "loop"
    /\ stop.idx > Len(drivers)
    /\ drivers' = <<>>
    /\ stop' = [stop EXCEPT !.pc = "stopped"]
    /\ UNCHANGED <<insts, proc, newSinceStop, exited,
                   safetyVars, rowsVars,
                   callVars, driverVars>>

Next ==
    \/ \E p \in Requests, surface \in Surfaces,
          connection \in SampleConnections, query \in SampleQueries \cup {<<>>} :
          Request(p, surface, connection, query)
    \/ \E p \in Requests : CreateDriver(p)
    \/ \E p \in Requests : Connect(p)
    \/ \E p \in Requests : ConnectFail(p)
    \/ \E p \in Requests : SetDriver(p)
    \/ \E p \in Requests, backendOk \in BOOLEAN : Query(p, backendOk)
    \/ StopBegin
    \/ \E closeOk \in BOOLEAN : StopClose(closeOk)
    \/ StopClear

Spec == Init /\ [][Next]_vars


----------------------------------------------------------------------------
(* One driver instance: connect, query and close of PostgresDriver,
   MysqlDriver and SqliteDriver, called one after the other *)

MaxCalls == 6

MaxSqlLength == 10000

DefaultQueryTimeout == 30000

DriverNames == {"sqlite", "postgres", "mysql"}

SqlLengths == {1, MaxSqlLength, MaxSqlLength + 1}

Timeouts == {0, DefaultQueryTimeout}

NoCall ==
    [op |-> "none", threw |-> "none", before |-> "none", released |-> 0,
     sqlLength |-> 0, timeoutMs |-> 0]

\* a constructed driver: pool / db is null. handle is 0 for null, else the
\* number of the pool or database; released[h] counts pool.end() / db.close()
\* calls on handle h; warnings counts console.warn calls
NewDriver(d) ==
    [driver |-> d, handle |-> 0, released |-> <<>>, warnings |-> 0,
     calls |-> 0, life |-> "never connected", seen |-> {}, last |-> NoCall]

InitDriver ==
    /\ SafetyIdle /\ RowsIdle /\ RegistryIdle /\ CallIdle
    /\ drv \in {NewDriver(d) : d \in DriverNames}

\* connect(): it succeeds, or it fails before a handle exists (package
\* missing, file cannot be opened), or the test connection of a pool fails
\* and connect ends that pool and sets it back to null
DriverConnect(outcome) ==
    /\ drv.driver \in DriverNames
    /\ drv.calls < MaxCalls
    /\ drv.handle = 0
    /\ outcome = "refused" => drv.driver # "sqlite"
    /\ drv' = [drv EXCEPT
          !.calls = @ + 1,
          !.handle = IF outcome = "ok" THEN Len(drv.released) + 1 ELSE 0,
          !.released = IF outcome = "ok" THEN Append(@, 0)
                       ELSE IF outcome = "refused" THEN Append(@, 1)
                       ELSE @,
          !.life = IF outcome = "ok" THEN "connected" ELSE "connect failed",
          !.last = [NoCall EXCEPT !.op = "connect", !.before = drv.life,
                                  !.threw = IF outcome = "ok" THEN "none"
                                            ELSE outcome]]
    /\ UNCHANGED <<safetyVars, rowsVars, registryVars, callVars>>

\* mutant: close() without the test of the handle
DriverClose_Unguarded(closeOk) ==
    /\ drv.driver \in DriverNames
    /\ drv.calls < MaxCalls
    /\ drv.handle = 0 => closeOk
    /\ drv' = [drv EXCEPT
          !.calls = @ + 1,
          !.seen = @ \cup {drv.life},
          !.released = IF drv.handle = 0 THEN @
                       ELSE [@ EXCEPT ![drv.handle] = @ + 1],
          !.handle = IF closeOk THEN 0 ELSE @,
          !.life = IF drv.handle # 0 /\ closeOk THEN "closed" ELSE @,
          !.last = [NoCall EXCEPT
                      !.op = "close", !.before = drv.life,
                      !.released = IF drv.handle = 0 THEN 0 ELSE 1,
                      !.threw = IF drv.handle = 0 THEN "null handle"
                                ELSE IF closeOk THEN "none"
                                ELSE "close failed"]]
    /\ UNCHANGED <<safetyVars, rowsVars, registryVars, callVars>>

\* close(): nothing when the handle is null; else pool.end() / db.close(),
\* and the handle is set to null when that did not throw
DriverClose(closeOk) ==
    /\ drv.driver \in DriverNames
    /\ drv.calls < MaxCalls
    /\ drv.handle = 0 => closeOk
    /\ drv' = [drv EXCEPT
          !.calls = @ + 1,
          !.seen = @ \cup {drv.life},
          !.released = IF drv.handle = 0 THEN @
                       ELSE [@ EXCEPT ![drv.handle] = @ + 1],
          !.handle = IF closeOk THEN 0 ELSE @,
          !.life = IF drv.handle # 0 /\ closeOk THEN "closed" ELSE @,
          !.last = [NoCall EXCEPT
                      !.op = "close", !.before = drv.life,
                      !.released = IF drv.handle = 0 THEN 0 ELSE 1,
                      !.threw = IF drv.handle = 0 \/ closeOk THEN "none"
                                ELSE "close failed"]]
    /\ UNCHANGED <<safetyVars, rowsVars, registryVars, callVars>>

\* query(sql, limit, timeoutMs): ensureConnected, then in SqliteDriver the
\* length test and the warning, then the statement runs or the backend fails
DriverRunQuery(sqlLength, timeoutMs, backendOk) ==
    /\ drv.driver \in DriverNames
    /\ drv.calls < MaxCalls
    /\ LET notConnected == drv.handle = 0
           tooLong == drv.driver = "sqlite" /\ sqlLength > MaxSqlLength
           warns == /\ ~notConnected /\ ~tooLong
                    /\ drv.driver = "sqlite" /\ timeoutMs > 0
       IN drv' = [drv EXCEPT
             !.calls = @ + 1,
             !.warnings = IF warns THEN @ + 1 ELSE @,
             !.last = [NoCall EXCEPT
                         !.op = "query", !.before = drv.life,
                         !.sqlLength = sqlLength, !.timeoutMs = timeoutMs,
                         !.threw = IF notConnected THEN "not connected"
                                   ELSE IF tooLong THEN "query too long"
                                   ELSE IF backendOk THEN "none"
                                   ELSE "backend"]]
    /\ UNCHANGED <<safetyVars, rowsVars, registryVars, callVars>>

NextDriver ==
    \/ \E outcome \in {"ok", "unavailable", "refused"} : DriverConnect(outcome)
    \/ \E closeOk \in BOOLEAN : DriverClose(closeOk)
    \/ \E sqlLength \in SqlLengths, timeoutMs \in Timeouts, backendOk \in BOOLEAN :
          DriverRunQuery(sqlLength, timeoutMs, backendOk)

SpecDriver == InitDriver /\ [][NextDriver]_vars

----------------------------------------------------------------------------
(* The connection listing: maskConnectionString and db_connections.
   Connection strings are sequences of characters; names are one character
   long. *)

Letters == {"p", "u", "v", "s", "t", "h", "d", "P"}

Digits == {"5"}

\* first index of a character of set cs in s, Len(s) + 1 if there is none
indexOfAny(s, cs) ==
    IF \E i \in DOMAIN s : s[i] \in cs
    THEN CHOOSE i \in DOMAIN s : s[i] \in cs /\ \A j \in 1..(i - 1) : s[j] \notin cs
    ELSE Len(s) + 1

\* last index of character c in s, 0 if there is none
lastIndexOf(s, c) ==
    IF \E i \in DOMAIN s : s[i] = c
    THEN CHOOSE i \in DOMAIN s : s[i] = c /\ \A j \in (i + 1)..Len(s) : s[j] # c
    ELSE 0

NotAUrl == [ok |-> FALSE, protocol |-> <<>>, host |-> <<>>, pathname |-> <<>>]

\* new URL(raw) for a scheme that is not special (postgres:, mysql:): the
\* scheme up to the first ":", after "//" the authority up to the next "/"
\* or "?", in it the credentials up to the last "@" and the host with an
\* optional numeric port, then the path up to "?"
parseUrl(raw) ==
    LET c == indexOfAny(raw, {":"})
        rest == SubSeq(raw, c + 1, Len(raw))
        hasAuthority == Len(rest) >= 2 /\ rest[1] = "/" /\ rest[2] = "/"
        after == SubSeq(rest, 3, Len(rest))
        authEnd == indexOfAny(after, {"/", "?"})
        authority == SubSeq(after, 1, authEnd - 1)
        at == lastIndexOf(authority, "@")
        hostport == SubSeq(authority, at + 1, Len(authority))
        colon == indexOfAny(hostport, {":"})
        hostname == SubSeq(hostport, 1, colon - 1)
        port == SubSeq(hostport, colon + 1, Len(hostport))
        tail == SubSeq(after, authEnd, Len(after))
        path == SubSeq(tail, 1, indexOfAny(tail, {"?"}) - 1)
        opaque == SubSeq(rest, 1, indexOfAny(rest, {"?"}) - 1)
    IN IF c < 2 \/ c > Len(raw) \/ \E i \in 1..(c - 1) : raw[i] \notin Letters
       THEN NotAUrl
       ELSE IF ~hasAuthority
       THEN [ok |-> TRUE, protocol |-> SubSeq(raw, 1, c), host |-> <<>>,
             pathname |-> opaque]
       ELSE IF \/ \E i \in DOMAIN hostname : hostname[i] \notin Letters \cup {"$"}
               \/ \E i \in DOMAIN port : port[i] \notin Digits
               \/ hostname = <<>> /\ (at > 0 \/ colon <= Len(hostport))
       THEN NotAUrl
       ELSE [ok |-> TRUE, protocol |-> SubSeq(raw, 1, c),
             host |-> IF port = <<>> THEN hostname ELSE hostport,
             pathname |-> path]

Configured == <<"[configured]">>

Memory == <<":memory:">>

maskConnectionString(connCfg) ==
    IF connCfg.driver = "sqlite"
    THEN IF connCfg.path = None THEN Memory ELSE connCfg.path[1]
    ELSE LET raw == IF connCfg.connectionString = None THEN <<>>
                    ELSE connCfg.connectionString[1]
             url == parseUrl(raw)
             name == SubSeq(url.pathname, 2, Len(url.pathname))
         IN IF raw # <<>> /\ raw[1] = "$" THEN raw
            ELSE IF url.ok
            THEN url.protocol \o <<"/", "/">> \o url.host \o <<"/">>
                    \o SubSeq(name, 1, indexOfAny(name, {"/"}) - 1)
            ELSE Configured

\* the lines db_connections writes for one connection
connectionEntry(name, connCfg) ==
    LET existing == driversGet(drivers, name)
    IN [name |-> name,
        isDefault |-> (name = Cfg.defaultConnection),
        driver |-> connCfg.driver,
        target |-> maskConnectionString(connCfg),
        mode |-> IF isReadOnly(connCfg.readOnly, Cfg.allowMutations)
                 THEN "read-only" ELSE "read-write",
        status |-> IF existing = 0 THEN "not connected"
                   ELSE IF insts[existing].handle = "open" THEN "connected"
                   ELSE "disconnected"]

\* the parts connection strings are put together from
Prefixes == {<<"p">>, <<"$", "P">>}

Credentials ==
    {<<>>, <<"u", "@">>, <<"u", ":", "s", "@">>, <<"u", ":", "t", "@">>,
     <<"v", ":", "s", "@">>}

Hosts == {<<"h">>, <<"h", ":", "5">>}

Databases == {<<>>, <<"/", "d">>}

build(prefix, creds, host, db) == prefix \o <<":", "/", "/">> \o creds \o host \o db

\* URL-shaped strings, a whole environment-variable reference, a key/value
\* string that is no URL
SampleStrings ==
    {build(pre, cr, h, db) :
        pre \in Prefixes, cr \in Credentials, h \in Hosts, db \in Databases}
    \cup {<<"$", "P">>, <<"h", " ", "u">>}

ConnCfg(driver, path, connectionString) ==
    [driver |-> driver, path |-> path, connectionString |-> connectionString,
     readOnly |-> None]

SampleConnCfgs ==
    {ConnCfg(d, None, Some(cs)) : d \in {"postgres", "mysql"}, cs \in SampleStrings}
    \cup {ConnCfg("postgres", None, None),
          ConnCfg("sqlite", None, None), ConnCfg("sqlite", Some(<<"d">>), None)}

\* two plugin configurations, each with the one connection "dev"
InitMask ==
    /\ SafetyIdle /\ RowsIdle /\ RegistryIdle /\ DriverIdle
    /\ input \in [fn : {"connections"},
                  first : SampleConnCfgs, second : SampleConnCfgs]
    /\ output = NotCalled

\* db_connections.execute() under either configuration
DbConnections ==
    /\ input.fn = "connections"
    /\ output = NotCalled
    /\ output' = [fn |-> "connections",
                  first |-> connectionEntry("dev", input.first),
                  second |-> connectionEntry("dev", input.second)]
    /\ UNCHANGED <<input, safetyVars, rowsVars, registryVars, driverVars>>

NextMask == DbConnections

SpecMask == InitMask /\ [][NextMask]_vars

----------------------------------------------------------------------------
(* Connection name resolution under any plugin configuration *)

SampleKeys ==
    {<<>>, <<"a">>, <<"a", "b">>, <<"b", "a">>, <<"a", "b", "c">>}

SampleDefaults == {None, Some(""), Some("a"), Some("b"), Some("zz")}

\* api.pluginConfig: absent, or with any of the two fields absent
SampleRawConfigs ==
    {None} \cup
    {Some([connections |-> c, defaultConnection |-> d]) :
        c \in {None} \cup {Some(k) : k \in SampleKeys}, d \in SampleDefaults}

SampleNames == {None, Some(""), Some("b"), Some("zz")}

InitResolve ==
    /\ SafetyIdle /\ RowsIdle /\ RegistryIdle /\ DriverIdle
    /\ input \in [fn : {"resolve"}, raw : SampleRawConfigs, name : SampleNames]
    /\ output = NotCalled

\* register(): cfg = resolveConfig(api.pluginConfig); then a request's
\* resolveConnectionName(params.connection)
ResolveName ==
    /\ input.fn = "resolve"
    /\ output = NotCalled
    /\ LET cfg == resolveConfig(input.raw)
       IN output' = [fn |-> "resolve", cfg |-> cfg,
                     result |-> resolveConnectionNameIn(cfg.connections,
                                    cfg.defaultConnection, input.name)]
    /\ UNCHANGED <<input, safetyVars, rowsVars, registryVars, driverVars>>

NextResolve == ResolveName

SpecResolve == InitResolve /\ [][NextResolve]_vars

----------------------------------------------------------------------------
(* The mutation policy of a request: isReadOnly and the safety check *)

InitPolicy ==
    /\ SafetyIdle /\ RowsIdle /\ RegistryIdle /\ DriverIdle
    /\ output = NotCalled
    /\ \E surface \in Surfaces, query \in SampleQueries \cup {<<"a", SC, "a">>},
          connectionReadOnly \in {None, Some(TRUE), Some(FALSE)},
          globalAllowMutations \in BOOLEAN :
          input = [fn |-> "policy", surface |-> surface, query |-> query,
                   connectionReadOnly |-> connectionReadOnly,
                   globalAllowMutations |-> globalAllowMutations]

\* const readOnly = isReadOnly(connCfg?.readOnly, cfg.allowMutations);
\* const safety = validateQuery(query, !readOnly)
SafetyCheck ==
    /\ input.fn = "policy"
    /\ output = NotCalled
    /\ LET readOnly == isReadOnly(input.connectionReadOnly,
                                  input.globalAllowMutations)
       IN output' = [fn |-> "policy", readOnly |-> readOnly,
                     safety |-> classify(input.surface, input.query, readOnly)]
    /\ UNCHANGED <<input, safetyVars, rowsVars, registryVars, driverVars>>

NextPolicy == SafetyCheck

SpecPolicy == InitPolicy /\ [][NextPolicy]_vars

----------------------------------------------------------------------------
(* formatResults applied to a result *)

InitFormat ==
    /\ SafetyIdle /\ RowsIdle /\ RegistryIdle /\ DriverIdle
    /\ output = NotCalled
    /\ \E header \in SampleHeaders, rows \in SampleRows,
          format \in {"table", "json", "csv"},
          totalAvailable \in {None, Some(0), Some(5)} :
          input = [fn |-> "format", header |-> header, rows |-> rows,
                   format |-> format, totalAvailable |-> totalAvailable]

FormatResults ==
    /\ input.fn = "format"
    /\ output = NotCalled
    /\ output' = [fn |-> "format",
                  result |-> formatResults(input.header, input.rows,
                                           input.format, input.totalAvailable)]
    /\ UNCHANGED <<input, safetyVars, rowsVars, registryVars, driverVars>>

NextFormat == FormatResults

SpecFormat == InitFormat /\ [][NextFormat]_vars

----------------------------------------------------------------------------
(* The regions of a text as an SQL scanner sees them, left to right: each   *)
(* unit is code, or lies in a single-quoted literal, a double-quoted        *)
(* identifier, a block comment or a line comment.  The last element is the  *)
(* region the text ends in.                                                 *)

RECURSIVE regionsFrom(_, _, _)
regionsFrom(s, i, mode) ==
    IF i > Len(s) THEN <<mode>>
    ELSE LET c == s[i] IN
         CASE mode = "code" ->
                IF c = SQ THEN <<"sq">> \o regionsFrom(s, i + 1, "sq")
                ELSE IF c = DQ THEN <<"dq">> \o regionsFrom(s, i + 1, "dq")
                ELSE IF pairAt(s, i, SL, ST)
                     THEN <<"block", "block">> \o regionsFrom(s, i + 2, "block")
                ELSE IF pairAt(s, i, MI, MI)
                     THEN <<"line", "line">> \o regionsFrom(s, i + 2, "line")
                ELSE <<"code">> \o regionsFrom(s, i + 1, "code")
           [] mode = "sq" ->
                IF c = SQ THEN <<"sq">> \o regionsFrom(s, i + 1, "code")
                ELSE IF c = BS /\ i < Len(s)
                     THEN <<"sq", "sq">> \o regionsFrom(s, i + 2, "sq")
                ELSE <<"sq">> \o regionsFrom(s, i + 1, "sq")
           [] mode = "dq" ->
                <<"dq">> \o regionsFrom(s, i + 1, IF c = DQ THEN "code" ELSE "dq")
           [] mode = "block" ->
                IF pairAt(s, i, ST, SL)
                THEN <<"block", "block">> \o regionsFrom(s, i + 2, "code")
                ELSE <<"block">> \o regionsFrom(s, i + 1, "block")
           [] OTHER ->
                IF c = NL THEN <<"code">> \o regionsFrom(s, i + 1, "code")
                ELSE <<"line">> \o regionsFrom(s, i + 1, "line")

Regions(s) == regionsFrom(s, 1, "code")

\* every literal, identifier and block comment of the text is closed
WellFormed(s) == Regions(s)[Len(s) + 1] \in {"code", "line"}

IsKeyword(c) == \E k \in DOMAIN MUTATION_KEYWORDS : MUTATION_KEYWORDS[k] = ToUpper(c)

\* the text with its literals, quoted identifiers and comments taken out
CodeOnly(s) ==
    LET r == Regions(s)
        F[i \in 0..Len(s)] ==
            IF i = 0 THEN <<>>
            ELSE IF r[i] = "code" THEN Append(F[i-1], s[i]) ELSE F[i-1]
    IN F[Len(s)]

\* taking them out joins no two units into a new literal or comment
CleanCut(s) ==
    LET c == CodeOnly(s)
        r == Regions(c)
    IN \A i \in DOMAIN c : r[i] = "code"

\* the keywords that stand in it as whole words
KeywordsInCode(s) ==
    LET c == CodeOnly(s)
    IN {ToUpper(c[i]) : i \in {j \in DOMAIN c :
            /\ IsKeyword(c[j])
            /\ (j = 1 \/ ~IsWord(c[j-1]))
            /\ (j = Len(c) \/ ~IsWord(c[j+1]))}}

KeywordUnits(s, inCode) ==
    LET r == Regions(s)
    IN {j \in DOMAIN s : IsKeyword(s[j]) /\ ((r[j] = "code") <=> inCode)}

Validated == safety # NotValidated

----------------------------------------------------------------------------
(* Claims about the classifier *)

\* C7: with mutations disabled, a text that has a mutation keyword as a whole
\* word outside literals, quoted identifiers and comments is denied, and the
\* reason names such a keyword.
C7_KeywordInCodeDenied ==
    (/\ Validated /\ ~allowMutations
     /\ WellFormed(sql) /\ CleanCut(sql)
     /\ KeywordsInCode(sql) # {})
        => /\ ~safety.allowed
           /\ safety.reason.keyword \in KeywordsInCode(sql)

\* C8: with mutations disabled, a single-statement text whose mutation
\* keywords all lie inside literals, quoted identifiers or comments is allowed.
C8_KeywordInRegionAllowed ==
    (/\ Validated /\ ~allowMutations /\ WellFormed(sql)
     /\ ~includes(sql, SC)
     /\ KeywordUnits(sql, TRUE) = {}
     /\ KeywordUnits(sql, FALSE) # {})
        => safety.allowed

\* a ";" that something other than white space follows
SeparatorRemains(s) ==
    \E i \in DOMAIN s : s[i] = SC /\ \E j \in (i+1)..Len(s) : ~IsSpace(s[j])

\* C9: with mutations disabled, a text that still holds a ";" after trimming
\* and dropping one trailing ";" is denied as "multiple statements not
\* allowed", whatever keywords it holds.
C9_MultipleStatementsDenied ==
    (Validated /\ ~allowMutations /\ SeparatorRemains(sql))
        => safety = [allowed |-> FALSE, reason |-> MultipleStatements]

C9_Witness ==
    /\ Validated /\ ~allowMutations
    /\ sql = <<"a", SC, "DROP">>
    /\ safety.reason = MultipleStatements

\* C10: with mutations allowed every text is allowed, and no reason is given.
C10_AllowedWhenMutationsAllowed ==
    (Validated /\ allowMutations)
        => safety = [allowed |-> TRUE, reason |-> NoReason]

C10_Witness ==
    /\ Validated /\ allowMutations
    /\ sql = <<"DROP", SC, "insert">>
    /\ safety.allowed

----------------------------------------------------------------------------
(* Row limiting claims, over SpecRows *)

Answered == qres.status = "ok"

RequestedLimit == IF qreq.limit = None THEN DefaultLimit ELSE qreq.limit[1]

ConfiguredMaxRows ==
    IF qreq.rawConfig = None \/ qreq.rawConfig[1] = None THEN DefaultMaxRows
    ELSE qreq.rawConfig[1][1]

RowCap == Min(Min(RequestedLimit, ConfiguredMaxRows), HardCap)

\* C5: whenever a db_query request returns rows, on any driver and for any
\* statement shape, their number is at most the least of the requested limit
\* (100 when omitted), the configured maxRows and 10,000.
C5_RowCap ==
    (Answered /\ qres.rows > 0) => qres.rows <= RowCap

\* C6: whenever the statement yields more rows than the (one or more) rows
\* returned, totalAvailable is greater than the number of rows returned and
\* the table caption reads "showing K of N".
C6_TruncationShown ==
    (/\ Answered
     /\ RowCap >= 1
     /\ qres.rows >= 1
     /\ qreq.statement.yield > qres.rows)
        => /\ qres.totalAvailable # None
           /\ qres.totalAvailable[1] > qres.rows
           /\ qres.text = "showing K of N rows"

----------------------------------------------------------------------------
(* Registry claims, over Spec *)

InFirstUse(p) == proc[p].pc \in {"connect", "set"}

\* C1: callers that are inside getDriver at the same time for one connection
\* name that had no registry entry all hold the same, single driver instance.
C1_SingleFlight ==
    \A p, q \in Requests :
        (InFirstUse(p) /\ InFirstUse(q) /\ proc[p].conn = proc[q].conn)
            => proc[p].inst = proc[q].inst

\* C2: once the stop handler has completed and until a new request arrives,
\* the registry is empty and every instance that is still connected has had
\* close() invoked.
C2_StopClosesAll ==
    (stop.pc = "stopped" /\ ~newSinceStop)
        => /\ drivers = <<>>
           /\ \A i \in DOMAIN insts :
                insts[i].handle = "open" => insts[i].closes > 0

\* C3: an instance whose connect() failed has a null handle, was connected
\* once only and is in no registry entry; the caller it failed for got the
\* error and ran no query on it.
C3_FailedConnectNotKept ==
    /\ \A i \in DOMAIN insts :
          insts[i].failed =>
              /\ insts[i].handle = "null"
              /\ insts[i].connects = 1
              /\ \A k \in DOMAIN drivers : drivers[k].inst # i
    /\ \A p \in Requests :
          (proc[p].inst # 0 /\ insts[proc[p].inst].failed) =>
              /\ proc[p].pc = "done"
              /\ proc[p].reply = Error("connect failed")
              /\ ~proc[p].queried

\* a request that arrived after a failed attempt for its connection name
\* has connected a fresh instance, and the registry holds it
C3_Witness ==
    \E p \in Requests :
        /\ proc[p].retry
        /\ proc[p].inst # 0
        /\ insts[proc[p].inst].handle = "open"
        /\ driversGet(drivers, proc[p].conn) = proc[p].inst

Denied(p) ==
    /\ proc[p].surface \in {"db_query", "/db", "cli"}
    /\ ~validateQuery(proc[p].query,
                      ~isReadOnly(connReadOnly(proc[p].conn),
                                  Cfg.allowMutations)).allowed

\* C4: a db_query, /db or CLI request whose SQL validateQuery denies under the
\* connection's effective read-only mode is answered with the denial reason
\* and never holds a driver, connects or queries; a request that has invoked
\* driver.query was allowed.
C4_ClassificationGates ==
    \A p \in Requests :
        /\ Denied(p) =>
              /\ proc[p].pc = "done"
              /\ proc[p].inst = 0
              /\ ~proc[p].queried
              /\ proc[p].reply =
                    Denial(validateQuery(proc[p].query, FALSE).reason)
        /\ proc[p].queried => ~Denied(p)

\* a mutation was denied on the read-only default connection while the
\* registry holds a driver
C4_Witness ==
    /\ \E p \in Requests :
          /\ Denied(p)
          /\ proc[p].reply.kind = "denied"
          /\ proc[p].reply.reason.keyword = "DROP"
    /\ drivers # <<>>

----------------------------------------------------------------------------
(* Policy claims, over SpecPolicy *)

PolicyChecked == output.fn = "policy"

\* C11: isReadOnly equals the connection's override when one is present and
\* the negation of the global allowMutations flag when it is absent, and the
\* db_query, /db and CLI query surfaces hand the negation of that result to
\* validateQuery.
C11_EffectiveReadOnly ==
    PolicyChecked =>
        /\ output.readOnly =
              (CASE input.connectionReadOnly = Some(TRUE) -> TRUE
                 [] input.connectionReadOnly = Some(FALSE) -> FALSE
                 [] OTHER -> ~input.globalAllowMutations)
        /\ input.surface \in {"db_query", "/db", "cli"} =>
              output.safety = validateQuery(input.query, ~output.readOnly)

\* a writable override on a connection lets a mutation through although
\* mutations are globally disabled, and a read-only override blocks one
\* although they are globally allowed
C11_Witness ==
    /\ PolicyChecked
    /\ input.query = <<"DROP", " ", "a">>
    /\ input.surface = "db_query"
    /\ \/ /\ input.connectionReadOnly = Some(FALSE)
          /\ ~input.globalAllowMutations
          /\ output.safety.allowed
       \/ /\ input.connectionReadOnly = Some(TRUE)
          /\ input.globalAllowMutations
          /\ ~output.safety.allowed

----------------------------------------------------------------------------
(* Formatting claims, over SpecFormat *)

Formatted == output.fn = "format"

\* C12: formatResults of an empty row set is exactly "No results." in the
\* table, json and csv encodings and for every totalAvailable.
C12_EmptyIsNoResults ==
    (Formatted /\ input.rows = <<>>)
        => output.result = [kind |-> "text", text |-> "No results."]

C12_Witness ==
    /\ Formatted
    /\ input.rows = <<>>
    /\ input.format = "csv"
    /\ input.totalAvailable = Some(5)
    /\ output.result.text = "No results."

\* what a text cell is to be shown as
Shown(v) == IF Len(v) > 200 THEN SubSeq(v, 1, 197) \o <<".", ".", ".">> ELSE v

HasSeparator(s) == includes(s, ",") \/ includes(s, DQ) \/ includes(s, NL)

TextRows == {i \in DOMAIN input.rows : input.rows[i].type = "text"}

IsTextData(c) == c \notin {",", DQ, NL, CR}

\* inside a quoted field every double quote comes doubled
RECURSIVE PairedQuotes(_, _)
PairedQuotes(s, i) ==
    IF ~includes(s, DQ) \/ i > Len(s) THEN TRUE
    ELSE IF s[i] # DQ THEN PairedQuotes(s, i + 1)
    ELSE i < Len(s) /\ s[i+1] = DQ /\ PairedQuotes(s, i + 2)

RECURSIVE Undoubled(_, _)
Undoubled(s, i) ==
    IF ~includes(s, DQ) THEN SubSeq(s, i, Len(s))
    ELSE IF i > Len(s) THEN <<>>
    ELSE IF s[i] = DQ THEN <<DQ>> \o Undoubled(s, i + 2)
    ELSE <<s[i]>> \o Undoubled(s, i + 1)

\* the text an RFC 4180 parser reads from one field, None if it is not a field
Rfc4180Field(f) ==
    IF Len(f) >= 2 /\ f[1] = DQ /\ f[Len(f)] = DQ
    THEN LET inner == SubSeq(f, 2, Len(f) - 1)
         IN IF PairedQuotes(inner, 1) THEN Some(Undoubled(inner, 1)) ELSE None
    ELSE IF \A i \in DOMAIN f : IsTextData(f[i]) THEN Some(f)
    ELSE None

QuoteCount(s) == Cardinality({i \in DOMAIN s : s[i] = DQ})

CsvFieldRight(s, f) ==
    /\ HasSeparator(s) =>
          /\ f[1] = DQ /\ f[Len(f)] = DQ
          /\ Len(f) = Len(s) + 2 + QuoteCount(s)
    /\ ~HasSeparator(s) => f = s
    /\ Rfc4180Field(f) = Some(s)

\* C14: in the CSV encoding the header and every cell that holds a comma, a
\* double quote or a newline is wrapped in double quotes with its quotes
\* doubled, every other field is emitted as it is, and an RFC 4180 parser
\* reads the sanitized cell text back from every emitted field.
C14_CsvRoundTrip ==
    (Formatted /\ input.format = "csv" /\ input.rows # <<>>) =>
        /\ CsvFieldRight(input.header, output.result.header)
        /\ \A i \in DOMAIN input.rows :
              CsvFieldRight(sanitizeCell(input.rows[i]), output.result.body[i])

----------------------------------------------------------------------------
(* Failure reporting, over Spec *)

Finished(p) == proc[p].pc = "done"

Failed(p) == Finished(p) /\ proc[p].reply.kind \in {"denied", "error"}

RenderedAsText(p) ==
    /\ proc[p].reply.kind \in {"ok", "denied", "error"}
    /\ proc[p].reply.kind = "denied" => proc[p].reply.reason # NoReason
    /\ proc[p].reply.kind = "error" => proc[p].reply.reason.text # "none"

\* C15 as stated: on every surface (db_query, db_schema, /db, CLI) a failure
\* ends in returned or printed text and the process is never exited.
C15_NoFailureExits ==
    /\ \A p \in Requests : Finished(p) => RenderedAsText(p)
    /\ ~exited

\* C15: on db_query, db_schema and /db a denial, a configuration error, a
\* connection error and an execution error all end in returned text and the
\* process goes on; the CLI prints the same text and then exits the process,
\* and that is the only way the process is exited.
C15_FailuresAreText ==
    /\ \A p \in Requests : Finished(p) => RenderedAsText(p)
    /\ exited = (\E p \in Requests : Failed(p) /\ proc[p].surface = "cli")

\* a tool call failed to connect and a later CLI query was denied
C15_Witness ==
    /\ \E p \in Requests :
          /\ Failed(p)
          /\ proc[p].surface = "db_query"
          /\ proc[p].reply = Error("connect failed")
    /\ \E p \in Requests :
          /\ Failed(p)
          /\ proc[p].surface = "cli"
          /\ proc[p].reply.kind = "denied"
    /\ exited

----------------------------------------------------------------------------
(* Connection listing claims, over SpecMask *)

Listed == output.fn = "connections"

IsNetwork(c) == c.driver \in {"postgres", "mysql"} /\ c.connectionString # None

\* the two strings are put together from the same parts but the credentials
OnlyCredentialsDiffer(a, b) ==
    /\ IsNetwork(a) /\ IsNetwork(b)
    /\ a.driver = b.driver
    /\ \E pre \in Prefixes, h \in Hosts, db \in Databases, c1, c2 \in Credentials :
          /\ a.connectionString[1] = build(pre, c1, h, db)
          /\ b.connectionString[1] = build(pre, c2, h, db)

Secrets == {"u", "v", "s", "t"}

HoldsSecret(s) == \E i \in DOMAIN s : s[i] \in Secrets

\* C16: the location db_connections shows for a connection holds no
\* credentials of its connection string: two configurations that differ only
\* in the user name or password of a Postgres/MySQL connection string give
\* the same listing, and the string is shown as it is only when it is an
\* environment-variable reference with no secret in it.
C16_NoCredentialsListed ==
    Listed =>
        /\ OnlyCredentialsDiffer(input.first, input.second)
              => output.first = output.second
        /\ IsNetwork(input.first) =>
              /\ ~HoldsSecret(output.first.target)
              /\ output.first.target = input.first.connectionString[1]
                    => ~HoldsSecret(input.first.connectionString[1])

----------------------------------------------------------------------------
(* Driver claims, over SpecDriver *)

Closed == drv.driver # "none" /\ drv.last.op = "close"

NotConnectedBefore ==
    drv.last.before \in {"never connected", "connect failed", "closed"}

\* C17: close() on a driver that was never connected, whose connect() failed
\* or that is already closed completes without error, releases nothing and
\* leaves the driver not connected; after a close() that succeeded the handle
\* is null; no handle is released twice by such calls.
C17_CloseIdempotent ==
    Closed =>
        /\ NotConnectedBefore =>
              /\ drv.last.threw = "none"
              /\ drv.last.released = 0
              /\ drv.handle = 0
        /\ drv.last.threw = "none" => drv.handle = 0

\* close() has been called in all three states, last on a closed pool whose
\* one release is still the only one
C17_Witness ==
    /\ Closed
    /\ drv.driver = "postgres"
    /\ {"never connected", "connect failed", "closed"} \subseteq drv.seen
    /\ drv.last.before = "closed"
    /\ \A h \in DOMAIN drv.released : drv.released[h] = 1

Queried == drv.driver = "sqlite" /\ drv.last.op = "query"

\* C18: on a SQLite connection the advisory about timeouts is emitted exactly
\* once however many queries with a positive timeout are run, and a query is
\* rejected for its text being longer than 10,000 characters only, never for
\* its timeout.
C18_AdvisoryOnce ==
    /\ drv.driver = "sqlite" => drv.warnings <= 1
    /\ Queried =>
          /\ (drv.last.timeoutMs > 0 /\ drv.last.threw \in {"none", "backend"})
                => drv.warnings = 1
          /\ drv.last.before = "connected" =>
                (drv.last.threw = "query too long") = (drv.last.sqlLength > 10000)

----------------------------------------------------------------------------
(* Registry entries over time, over Spec *)

Names == {drivers[k].name : k \in DOMAIN drivers}

\* a step keeps every entry of the registry, or it is the clear of shutdown
EntriesKept ==
    \/ \A name \in Names : driversGet(drivers', name) = driversGet(drivers, name)
    \/ stop.pc = "loop" /\ drivers' = <<>>

\* a request that starts while its name is in the registry gets that
\* instance, and no instance is created or connected for it
LaterCallsReuse ==
    \A p \in Requests :
        (proc[p].pc = "idle" /\ proc'[p].pc \in {"query", "create"}
            /\ proc'[p].conn \in Names)
        => /\ proc'[p].pc = "query"
           /\ proc'[p].inst = driversGet(drivers, proc'[p].conn)
           /\ insts' = insts

\* C19: once a driver for a connection name is in the registry, every later
\* getDriver call for the name returns that instance and creates or connects
\* no other, until shutdown clears the registry, also after the driver's
\* queries have failed: the registry never replaces a live entry on its own.
C19_EntryNeverReplaced == [][EntriesKept /\ LaterCallsReuse]_vars

----------------------------------------------------------------------------
(* Name resolution claims, over SpecResolve *)

NameResolved == output.fn = "resolve"

ConfiguredKeys ==
    IF input.raw = None \/ input.raw[1].connections = None THEN <<>>
    ELSE input.raw[1].connections[1]

ConfiguredDefault ==
    IF input.raw = None \/ input.raw[1].defaultConnection = None THEN ""
    ELSE input.raw[1].defaultConnection[1]

NameGiven == input.name # None /\ input.name[1] # ""

\* C20: for a request without a name, under a configuration produced by
\* resolveConfig: a configured default is used; with no configured default
\* and exactly one connection that connection is used; with no configured
\* default and several connections the request fails with an ambiguity error
\* that lists them; with no connections it fails with "no connections
\* configured"; and a name that is given always wins over the default.
C20_NameResolution ==
    NameResolved =>
        LET r == output.result
        IN /\ NameGiven => (r.ok /\ r.name = input.name[1])
           /\ (~NameGiven /\ ConfiguredDefault # "")
                 => (r.ok /\ r.name = ConfiguredDefault)
           /\ (~NameGiven /\ ConfiguredDefault = "" /\ Len(ConfiguredKeys) = 1)
                 => (r.ok /\ r.name = ConfiguredKeys[1])
           /\ (~NameGiven /\ ConfiguredDefault = "" /\ Len(ConfiguredKeys) > 1)
                 => /\ ~r.ok
                    /\ r.error = "Multiple connections available"
                    /\ r.listed = ConfiguredKeys
           /\ (~NameGiven /\ ConfiguredDefault = "" /\ Len(ConfiguredKeys) = 0)
                 => (~r.ok /\ r.error = "No database connections configured.")

----------------------------------------------------------------------------
(* The rowCount of a result, over SpecRows *)

ReadAnswered == Answered /\ ReturnsRows(qreq.statement.head) /\ RowCap >= 0

\* C21: for every read query on every driver the rowCount of the returned
\* QueryResult is the number of rows in its rows array, the rows left after
\* the limit was applied, so rowCount is never greater than the limit.
C21_RowCountIsRowsLength ==
    ReadAnswered =>
        /\ qres.rowCount = qres.rows
        /\ qres.rowCount <= RowCap

====
